---- MODULE Spec2Model ----
(***************************************************************************)
(* Areal-weighted interpolation between Forward Sortation Areas (FSAs, the *)
(* source partition) and Toronto neighbourhoods (the target partition).    *)
(*                                                                         *)
(* notebooks/03_fsa_to_neighborhood.ipynb builds the FSA-to-neighbourhood  *)
(* overlap table; the model follows its cells statement by statement.      *)
(*                                                                         *)
(* Geometry.  The plane is cut into finitely many atoms, the faces of the  *)
(* common refinement of the two layers; an atom is a pair <<k, a>> of its  *)
(* number k and its (positive) area a in the equal-area projection.  A     *)
(* polygon is the set of atoms it covers, its area the sum of their areas, *)
(* and the intersection of two polygons the atoms they share.  A stretch   *)
(* of boundary is an atom of area 0: two polygons that only touch share    *)
(* atoms of area 0 and nothing else.                                       *)
(*                                                                         *)
(* Numbers.  Areas are naturals; quotients are exact rationals kept in     *)
(* lowest terms, [num |-> n, den |-> d].  The notebook computes in float64 *)
(* and so agrees with the model up to rounding.                            *)
(***************************************************************************)
EXTENDS Integers, Sequences, FiniteSets, TLC

VARIABLES pc, fsas, hoods, intersect, grouped, statistic, estimate,
          chunks, df_theft_clean

vars == <<pc, fsas, hoods, intersect, grouped, statistic, estimate,
          chunks, df_theft_clean>>

(***************************************************************************)
(* Bounds of the model and the inputs drawn in Init.                       *)
(***************************************************************************)
NAtoms == 3

\* Atom areas, one tuple per scenario family: the worked example of the
\* specification (40 + 60 and 30 + 20), and areas that
\* put overlap shares at (2 of 2000) and below (1 of 2000) the noise threshold.
AreaProfiles == << <<40, 60, 30, 20, 50, 10>>, <<2, 1, 1997, 1000, 3, 5>> >>

FsaIds == <<"M1A", "M1B">>
HoodIds == <<"001", "002">>

\* Values a source-indexed statistic takes.
FieldValues == {10, 20}

None == "None"

\* The missing marker of a numeric column.
NaN == [nan |-> TRUE]

(***************************************************************************)
(* Exact rational arithmetic (float64 division, sum and comparison).       *)
(***************************************************************************)
RECURSIVE Gcd(_, _)
Gcd(a, b) == IF b = 0 THEN a ELSE Gcd(b, a % b)

Rat(n, d) == LET g == Gcd(n, d) IN [num |-> n \div g, den |-> d \div g]

Zero == [num |-> 0, den |-> 1]

One == [num |-> 1, den |-> 1]

RatAdd(a, b) ==
    LET g == Gcd(a.den, b.den)
    IN  Rat(a.num * (b.den \div g) + b.num * (a.den \div g), (a.den \div g) * b.den)

RatMul(a, b) ==
    LET g1 == Gcd(a.num, b.den)
        g2 == Gcd(b.num, a.den)
    IN  Rat((a.num \div g1) * (b.num \div g2), (a.den \div g2) * (b.den \div g1))

RatDiv(a, b) == RatMul(a, [num |-> b.den, den |-> b.num])

RatGE(a, b) == a.num * b.den >= b.num * a.den

RatLT(a, b) == a.num * b.den < b.num * a.den

(***************************************************************************)
(* Geometry.                                                               *)
(***************************************************************************)
RECURSIVE Area(_)
Area(g) ==
    IF g = {} THEN 0
    ELSE LET x == CHOOSE y \in g : TRUE IN x[2] + Area(g \ {x})

\* Fault: how="union" in place of how="intersection".
IntersectionAsUnion(g1, g2) == g1 \cup g2

Intersection(g1, g2) == g1 \cap g2

\* Fault: keep_geom_type=False, the lines and points of an intersection kept.
PolygonalKeepAll(g) == g

\* The polygons of a geometry (overlay's keep_geom_type=True): its lines and
\* points, which have no area, are dropped.
Polygonal(g) == {a \in g : a[2] > 0}

(***************************************************************************)
(* Cell 3: the two layers as read from the GeoJSON files.                  *)
(***************************************************************************)
Atoms(p) == {<<k, AreaProfiles[p][k]>> : k \in 1..NAtoms}

\* A stretch of boundary line that the first FSA and the first neighbourhood
\* have in common.
Edge == <<0, 0>>

WithEdge(g) == IF g = {} THEN g ELSE g \cup {Edge}

\* The worked example of the specification: FSA A (area 100) and FSA B (area
\* 50) meet neighbourhood T in areas 40 and 30.
ExampleFsas == <<{<<1, 40>>, <<2, 60>>}, {<<3, 30>>, <<4, 20>>}>>

ExampleHoods == <<{<<1, 40>>, <<3, 30>>}, {}>>

\* The records of a layer: one per identifier that covers at least one atom,
\* in the order of the identifiers.
RECURSIVE Layer(_, _, _)
Layer(ids, geoms, crs) ==
    IF ids = <<>> THEN <<>>
    ELSE LET rest == Layer(Tail(ids), Tail(geoms), crs)
         IN  IF Head(geoms) = {} THEN rest
             ELSE <<[id |-> Head(ids), geometry |-> Head(geoms), crs |-> crs]>> \o rest

ReadFsas(ids, geoms) ==
    LET l == Layer(ids, geoms, "EPSG:4326")
    IN  [i \in 1..Len(l) |-> [CFSAUID |-> l[i].id, geometry |-> l[i].geometry,
                              crs |-> l[i].crs]]

ReadHoods(ids, geoms) ==
    LET l == Layer(ids, geoms, "EPSG:4326")
    IN  [i \in 1..Len(l) |-> [AREA_LONG_CODE |-> l[i].id, geometry |-> l[i].geometry,
                              crs |-> l[i].crs]]

\* The identifiers of the FSA records: distinct, or (a file that lists one
\* FSA on two records) the same identifier twice.
FsaIdChoices == {FsaIds, <<FsaIds[1], FsaIds[1]>>}

Loaded(ids, fg, hg) ==
    /\ pc = "cell5"
    /\ fsas = ReadFsas(ids, fg)
    /\ hoods = ReadHoods(HoodIds, hg)
    /\ intersect = <<>>
    /\ grouped = <<>>
    /\ statistic = None
    /\ estimate = <<>>
    /\ chunks = <<>>
    /\ df_theft_clean = <<>>

\* The layers drawn: every way of giving the atoms of a profile to the FSAs
\* (an atom lies in at most one) and to the neighbourhoods, such that each
\* layer has a record; Start says what the program holds of them.
InitFrom(profiles, idChoices, Start(_, _, _)) ==
    \E p \in profiles, ids \in idChoices :
       \E src \in [1..NAtoms -> 0..Len(FsaIds)],
          tgt \in [1..NAtoms -> SUBSET (1..Len(HoodIds))] :
           LET fa == [s \in 1..Len(FsaIds) |-> {a \in Atoms(p) : src[a[1]] = s}]
               ha == [t \in 1..Len(HoodIds) |-> {a \in Atoms(p) : t \in tgt[a[1]]}]
               fg == [fa EXCEPT ![1] = WithEdge(fa[1])]
               hg == [ha EXCEPT ![1] = WithEdge(ha[1])]
           IN  /\ \E s \in 1..Len(FsaIds) : fg[s] # {}
               /\ \E t \in 1..Len(HoodIds) : hg[t] # {}
               /\ (ids # FsaIds => \A s \in 1..Len(FsaIds) : fg[s] # {})
               /\ Start(ids, fg, hg)

Init ==
    \/ InitFrom(1..Len(AreaProfiles), FsaIdChoices, Loaded)
    \/ Loaded(FsaIds, ExampleFsas, ExampleHoods)

(***************************************************************************)
(* Cell 5: reproject both layers to the equal-area CRS.                    *)
(***************************************************************************)
to_crs(df, crs) == [i \in 1..Len(df) |-> [df[i] EXCEPT !.crs = crs]]

Reproject ==
    /\ pc = "cell5"
    /\ hoods' = to_crs(hoods, "EPSG:3347")
    /\ fsas' = to_crs(fsas, "EPSG:3347")
    /\ pc' = "fsa_area"
    /\ UNCHANGED <<intersect, grouped, statistic, estimate, chunks, df_theft_clean>>

(***************************************************************************)
(* Cell 6: the overlap table.                                              *)
(***************************************************************************)
\* Fault: the area added to the column a previous run of the cell left.
WithFsaAreaAccumulated(df) ==
    [i \in 1..Len(df) |->
        [fsa_area |-> Area(df[i].geometry)
                      + (IF "fsa_area" \in DOMAIN df[i] THEN df[i].fsa_area ELSE 0)]
        @@ df[i]]

\* fsas["fsa_area"] = fsas.geometry.area
WithFsaArea(df) == [i \in 1..Len(df) |-> [fsa_area |-> Area(df[i].geometry)] @@ df[i]]

FsaArea ==
    /\ pc = "fsa_area"
    /\ fsas' = WithFsaArea(fsas)
    /\ pc' = "overlay"
    /\ UNCHANGED <<hoods, intersect, grouped, statistic, estimate, chunks, df_theft_clean>>

\* Fault: the row carries the whole geometry of the neighbourhood instead of
\* the part it shares with the FSA.
OverlayRowTargetGeometry(r1, r2) ==
    [CFSAUID |-> r1.CFSAUID, fsa_area |-> r1.fsa_area,
     AREA_LONG_CODE |-> r2.AREA_LONG_CODE,
     geometry |-> Polygonal(r2.geometry)]

\* Fault: the row carries the neighbourhood's area as its fsa_area, so that
\* the overlap is normalised by the target instead of the source.
OverlayRowHoodArea(r1, r2) ==
    [CFSAUID |-> r1.CFSAUID, fsa_area |-> Area(r2.geometry),
     AREA_LONG_CODE |-> r2.AREA_LONG_CODE,
     geometry |-> Polygonal(Intersection(r1.geometry, r2.geometry))]

\* gpd.overlay(df1, df2, how="intersection"): one row per pair of records whose
\* geometries share a polygon of positive area, in the order of (df1, df2)
\* row numbers, with the columns of both records and the shared polygons.
OverlayRow(r1, r2) ==
    [CFSAUID |-> r1.CFSAUID, fsa_area |-> r1.fsa_area,
     AREA_LONG_CODE |-> r2.AREA_LONG_CODE,
     geometry |-> Polygonal(Intersection(r1.geometry, r2.geometry))]

RECURSIVE OverlayFrom(_, _, _, _)
OverlayFrom(df1, df2, i, j) ==
    IF i > Len(df1) THEN <<>>
    ELSE IF j > Len(df2) THEN OverlayFrom(df1, df2, i + 1, 1)
    ELSE LET rest == OverlayFrom(df1, df2, i, j + 1)
         IN  IF Polygonal(Intersection(df1[i].geometry, df2[j].geometry)) = {} THEN rest
             ELSE <<OverlayRow(df1[i], df2[j])>> \o rest

\* Fault: each FSA is matched with the first neighbourhood it meets only.
RECURSIVE OverlayFirstMatch(_, _, _, _)
OverlayFirstMatch(df1, df2, i, j) ==
    IF i > Len(df1) THEN <<>>
    ELSE IF j > Len(df2) THEN OverlayFirstMatch(df1, df2, i + 1, 1)
    ELSE IF Polygonal(Intersection(df1[i].geometry, df2[j].geometry)) = {}
         THEN OverlayFirstMatch(df1, df2, i, j + 1)
         ELSE <<OverlayRow(df1[i], df2[j])>> \o OverlayFirstMatch(df1, df2, i + 1, 1)

overlay_first_match(df1, df2) == OverlayFirstMatch(df1, df2, 1, 1)

overlay(df1, df2) == OverlayFrom(df1, df2, 1, 1)

Overlay ==
    /\ pc = "overlay"
    /\ intersect' = overlay(fsas, hoods)
    /\ pc' = "intersect_area"
    /\ UNCHANGED <<fsas, hoods, grouped, statistic, estimate, chunks, df_theft_clean>>

\* Fault: the area column is copied from the FSA instead of measured on the
\* shared geometry.
WithFsaAreaAsIntersectArea(df) ==
    [i \in 1..Len(df) |-> df[i] @@ [intersect_area |-> df[i].fsa_area]]

\* intersect["intersect_area"] = intersect.geometry.area
WithIntersectArea(df) ==
    [i \in 1..Len(df) |-> df[i] @@ [intersect_area |-> Area(df[i].geometry)]]

IntersectArea ==
    /\ pc = "intersect_area"
    /\ intersect' = WithIntersectArea(intersect)
    /\ pc' = "merge"
    /\ UNCHANGED <<fsas, hoods, grouped, statistic, estimate, chunks, df_theft_clean>>

\* intersect.merge(fsas[["CFSAUID"]], on="CFSAUID"): an inner join on the key,
\* in the order of the left rows; a left row is repeated once per right row
\* with its key, and the right frame adds no column.
RECURSIVE MatchCount(_, _)
MatchCount(key, right) ==
    IF right = <<>> THEN 0
    ELSE (IF Head(right).CFSAUID = key THEN 1 ELSE 0) + MatchCount(key, Tail(right))

RECURSIVE Repeat(_, _)
Repeat(row, n) == IF n = 0 THEN <<>> ELSE <<row>> \o Repeat(row, n - 1)

\* Fault: a cross join (the "on" key left out).
RECURSIVE merge_cross(_, _)
merge_cross(left, right) ==
    IF left = <<>> THEN <<>>
    ELSE Repeat(Head(left), Len(right)) \o merge_cross(Tail(left), right)

RECURSIVE merge(_, _)
merge(left, right) ==
    IF left = <<>> THEN <<>>
    ELSE Repeat(Head(left), MatchCount(Head(left).CFSAUID, right)) \o merge(Tail(left), right)

Merge ==
    /\ pc = "merge"
    /\ intersect' = merge(intersect, fsas)
    /\ pc' = "overlap_percent"
    /\ UNCHANGED <<fsas, hoods, grouped, statistic, estimate, chunks, df_theft_clean>>

\* Fault: the quotient taken the wrong way round.
overlap_percent_inverse(row) == Rat(row.fsa_area, row.intersect_area)

\* intersect["overlap_percent"] = intersect["intersect_area"] / intersect["fsa_area"]
\* Fault: a percentage (0..100) in place of a fraction (0..1).
overlap_percent_times_100(row) == Rat(100 * row.intersect_area, row.fsa_area)

overlap_percent(row) == Rat(row.intersect_area, row.fsa_area)

WithOverlapPercent(df) ==
    [i \in 1..Len(df) |-> df[i] @@ [overlap_percent |-> overlap_percent(df[i])]]

OverlapPercent ==
    /\ pc = "overlap_percent"
    /\ intersect' = WithOverlapPercent(intersect)
    /\ pc' = "filter"
    /\ UNCHANGED <<fsas, hoods, grouped, statistic, estimate, chunks, df_theft_clean>>

\* intersect = intersect[intersect["overlap_percent"] >= 0.001]
ThresholdNum == 1

ThresholdDen == 1000

Threshold == [num |-> ThresholdNum, den |-> ThresholdDen]

\* Fault: > in place of >=.
RetainedStrict(row) == ~RatGE(Threshold, row.overlap_percent)

Retained(row) == RatGE(row.overlap_percent, Threshold)

NoiseFilter(df) == SelectSeq(df, Retained)

\* Fault: the filter hands over to the interpolator, cells 7 and 8 left out.
FilterThenInterpolate ==
    /\ pc = "filter"
    /\ intersect' = NoiseFilter(intersect)
    /\ pc' = "interpolate"
    /\ UNCHANGED <<fsas, hoods, grouped, statistic, estimate, chunks, df_theft_clean>>

Filter ==
    /\ pc = "filter"
    /\ intersect' = NoiseFilter(intersect)
    /\ pc' = "cell7"
    /\ UNCHANGED <<fsas, hoods, grouped, statistic, estimate, chunks, df_theft_clean>>

\* Cell 6 run once more, on the frames its previous run left behind.
build(sources, targets) ==
    NoiseFilter(WithOverlapPercent(
        merge(WithIntersectArea(overlay(sources, targets)), sources)))

RunCell6Again ==
    /\ pc = "cell7"
    /\ fsas' = WithFsaArea(fsas)
    /\ intersect' = build(fsas', hoods)
    /\ pc' = "rebuilt"
    /\ UNCHANGED <<hoods, grouped, statistic, estimate, chunks, df_theft_clean>>

(***************************************************************************)
(* Cells 7 and 8: the two grouped views of the overlap table.              *)
(***************************************************************************)
\* Fault: the group's largest value ("max") in place of their sum.
RECURSIVE MaxColumn(_, _)
MaxColumn(df, col) ==
    IF df = <<>> THEN Zero
    ELSE LET m == MaxColumn(Tail(df), col)
         IN  IF RatGE(Head(df)[col], m) THEN Head(df)[col] ELSE m

RECURSIVE SumColumn(_, _)
SumColumn(df, col) ==
    IF df = <<>> THEN Zero ELSE RatAdd(Head(df)[col], SumColumn(Tail(df), col))

Column(df, col) == [i \in 1..Len(df) |-> df[i][col]]

\* df.groupby(key).agg({other: list, "overlap_percent": "sum"}).reset_index():
\* one row per key value present in df, in sorted key order (order lists the
\* key values sorted), with the other column's values in row order and the
\* sum of the group's overlap_percent.
\* Fault: the group's first value taken ("first") in place of all of them.
RECURSIVE groupby_first(_, _, _, _)
groupby_first(df, key, other, order) ==
    IF order = <<>> THEN <<>>
    ELSE LET group == SelectSeq(df, LAMBDA r : r[key] = Head(order))
             rest == groupby_first(df, key, other, Tail(order))
         IN  IF group = <<>> THEN rest
             ELSE <<(key :> Head(order)) @@ (other :> <<group[1][other]>>)
                      @@ ("overlap_percent" :> SumColumn(group, "overlap_percent"))>>
                  \o rest

RECURSIVE groupby(_, _, _, _)
groupby(df, key, other, order) ==
    IF order = <<>> THEN <<>>
    ELSE LET group == SelectSeq(df, LAMBDA r : r[key] = Head(order))
             rest == groupby(df, key, other, Tail(order))
         IN  IF group = <<>> THEN rest
             ELSE <<(key :> Head(order)) @@ (other :> Column(group, other))
                      @@ ("overlap_percent" :> SumColumn(group, "overlap_percent"))>>
                  \o rest

GroupBySource ==
    /\ pc = "cell7"
    /\ grouped' = groupby(intersect, "CFSAUID", "AREA_LONG_CODE", FsaIds)
    /\ pc' = "cell8"
    /\ UNCHANGED <<fsas, hoods, intersect, statistic, estimate, chunks, df_theft_clean>>

\* Fault: the view of cell 8 assigned to intersect in place of grouped.
GroupByTargetIntoIntersect ==
    /\ pc = "cell8"
    /\ intersect' = groupby(intersect, "AREA_LONG_CODE", "CFSAUID", HoodIds)
    /\ pc' = "interpolate"
    /\ UNCHANGED <<fsas, hoods, grouped, statistic, estimate, chunks, df_theft_clean>>

GroupByTarget ==
    /\ pc = "cell8"
    /\ grouped' = groupby(intersect, "AREA_LONG_CODE", "CFSAUID", HoodIds)
    /\ pc' = "interpolate"
    /\ UNCHANGED <<fsas, hoods, intersect, statistic, estimate, chunks, df_theft_clean>>

(***************************************************************************)
(* The areal interpolator (specification section 4.4): the mapping table   *)
(* applied to one field of a source-indexed statistic.                     *)
(***************************************************************************)
RECURSIVE WeightedSum(_, _)
WeightedSum(rows, F) ==
    IF rows = <<>> THEN Zero
    ELSE RatAdd(RatMul(Rat(F[Head(rows).CFSAUID], 1), Head(rows).overlap_percent),
                WeightedSum(Tail(rows), F))

\* Fault: an intensive field split by weight like an extensive one.
TargetValueUnnormalised(rows, F, kind) ==
    IF rows = <<>> THEN NaN ELSE WeightedSum(rows, F)

\* Fault: the weighted sum of an intensive field divided by the number of
\* contributing sources instead of by the sum of their weights.
TargetValueDividedByCount(rows, F, kind) ==
    IF rows = <<>> THEN NaN
    ELSE IF kind = "extensive" THEN WeightedSum(rows, F)
    ELSE RatDiv(WeightedSum(rows, F), Rat(Len(rows), 1))

TargetValue(rows, F, kind) ==
    IF rows = <<>> THEN NaN
    ELSE IF kind = "extensive" THEN WeightedSum(rows, F)
    ELSE RatDiv(WeightedSum(rows, F), SumColumn(rows, "overlap_percent"))

EstimateRow(table, t, F, kind) ==
    LET rows == SelectSeq(table, LAMBDA r : r.AREA_LONG_CODE = t)
    IN  [AREA_LONG_CODE |-> t,
         value |-> TargetValue(rows, F, kind),
         contributors |-> Column(rows, "CFSAUID"),
         total_weight |-> SumColumn(rows, "overlap_percent")]

RowsOfTargetCount(table, t) == Len(SelectSeq(table, LAMBDA r : r.AREA_LONG_CODE = t))

\* Fault: the estimate is built from the targets the mapping table lists, so a
\* neighbourhood without any entry gets no row.
interpolate_mapped_targets(table, targets, F, kind) ==
    LET listed == SelectSeq(targets, LAMBDA h : RowsOfTargetCount(table, h.AREA_LONG_CODE) > 0)
    IN  [j \in 1..Len(listed) |-> EstimateRow(table, listed[j].AREA_LONG_CODE, F, kind)]

interpolate(table, targets, F, kind) ==
    [j \in 1..Len(targets) |-> EstimateRow(table, targets[j].AREA_LONG_CODE, F, kind)]

\* The statistic has one value per FSA identifier of the source layer.
SourceIds == {fsas[i].CFSAUID : i \in DOMAIN fsas}

\* The classifications a field can be declared with; None is a field that
\* has none declared.  The classification is looked at before the values: a
\* refused request leaves statistic with the field's classification alone.
Classifications == {"extensive", "intensive"}

\* Fault: a field without a classification is interpolated all the same.
DeclaredOrNot(kind) == TRUE

Declared(kind) == kind \in Classifications

Interpolate ==
    /\ pc = "interpolate"
    /\ \E kind \in Classifications \cup {None} :
        IF Declared(kind)
        THEN \E F \in [SourceIds -> FieldValues] :
                /\ statistic' = [values |-> F, kind |-> kind]
                /\ estimate' = interpolate(intersect, hoods, F, kind)
                /\ pc' = "done"
        ELSE /\ statistic' = [kind |-> kind]
             /\ estimate' = estimate
             /\ pc' = "ClassificationError"
    /\ UNCHANGED <<fsas, hoods, intersect, grouped, chunks, df_theft_clean>>

Next ==
    \/ Reproject
    \/ FsaArea
    \/ Overlay
    \/ IntersectArea
    \/ Merge
    \/ OverlapPercent
    \/ Filter
    \/ RunCell6Again
    \/ GroupBySource
    \/ GroupByTarget
    \/ Interpolate

Spec == Init /\ [][Next]_vars

(***************************************************************************)
(* Vocabulary of the properties.                                           *)
(***************************************************************************)
\* The overlap table carries its weights (overlap_percent is computed).
Weighted ==
    pc \in {"filter", "cell7", "rebuilt", "cell8", "interpolate", "done",
            "ClassificationError"}

\* The noise filter has run: intersect holds the retained mapping entries.
Filtered ==
    pc \in {"cell7", "rebuilt", "cell8", "interpolate", "done", "ClassificationError"}

\* Every FSA identifier names one record (the data model's SourceUnit).
UniqueFsaIds ==
    \A i, j \in DOMAIN fsas : fsas[i].CFSAUID = fsas[j].CFSAUID => i = j

\* No two neighbourhood polygons share area.
HoodsDisjoint ==
    \A i, j \in DOMAIN hoods :
        i # j => Polygonal(hoods[i].geometry \cap hoods[j].geometry) = {}

HoodsUnion == UNION {hoods[j].geometry : j \in DOMAIN hoods}

\* The neighbourhoods cover every FSA completely.
FullCoverage == \A i \in DOMAIN fsas : Polygonal(fsas[i].geometry) \subseteq HoodsUnion

RECURSIVE SumRat(_, _)
SumRat(S, f) ==
    IF S = {} THEN Zero
    ELSE LET x == CHOOSE y \in S : TRUE IN RatAdd(f[x], SumRat(S \ {x}, f))

RECURSIVE SumNat(_, _)
SumNat(S, f) ==
    IF S = {} THEN 0
    ELSE LET x == CHOOSE y \in S : TRUE IN f[x] + SumNat(S \ {x}, f)

\* The weight column of a table, by row number.
Weights(df) == [k \in DOMAIN df |-> df[k].overlap_percent]

\* The row numbers of table df for source s, for target t, for the pair.
RowsOfSource(df, s) == {k \in DOMAIN df : df[k].CFSAUID = s}

RowsOfTarget(df, t) == {k \in DOMAIN df : df[k].AREA_LONG_CODE = t}

RowsOfPair(df, s, t) == RowsOfSource(df, s) \cap RowsOfTarget(df, t)

\* The overlap table as it stood before the noise filter.
RawTable == WithOverlapPercent(merge(WithIntersectArea(overlay(fsas, hoods)), fsas))

BelowThreshold(row) == ThresholdDen * row.intersect_area < ThresholdNum * row.fsa_area

\* Some entry was removed by the noise filter.
SomeDropped == \E k \in DOMAIN RawTable : BelowThreshold(RawTable[k])

C2_WeightBound ==
    Filtered =>
        \A k \in DOMAIN intersect :
            /\ intersect[k].overlap_percent.num > 0
            /\ intersect[k].overlap_percent.num <= intersect[k].overlap_percent.den

\* A retained entry of weight 1 beside one of weight below 1, with
\* neighbourhoods that overlap one another.
C2_Witness ==
    /\ Filtered
    /\ ~HoodsDisjoint
    /\ \E k \in DOMAIN intersect : intersect[k].overlap_percent = One
    /\ \E k \in DOMAIN intersect : intersect[k].overlap_percent # One

(***************************************************************************)
(* C3.  For every FSA the weights of its retained entries sum to at most   *)
(* 1, provided the neighbourhoods do not overlap one another; this is the  *)
(* sum cell 7 shows per CFSAUID.  An FSA is a source unit of the data      *)
(* model: its identifier names one record of the layer.                    *)
(***************************************************************************)
C3_SourceWeightsAtMostOne ==
    (UniqueFsaIds /\ HoodsDisjoint) =>
        /\ Filtered =>
            \A i \in DOMAIN fsas :
                RatGE(One, SumRat(RowsOfSource(intersect, fsas[i].CFSAUID),
                                  Weights(intersect)))
        /\ pc = "cell8" =>
            \A g \in DOMAIN grouped : RatGE(One, grouped[g].overlap_percent)

\* An FSA split over two disjoint neighbourhoods that leave part of it
\* uncovered: two entries, whose weights sum to less than 1 in cell 7's view.
C3_Witness ==
    /\ pc = "cell8"
    /\ UniqueFsaIds
    /\ HoodsDisjoint
    /\ \E g \in DOMAIN grouped :
        /\ Len(grouped[g].AREA_LONG_CODE) = 2
        /\ grouped[g].overlap_percent # One
        /\ RatGE(grouped[g].overlap_percent, [num |-> 1, den |-> 2])

(***************************************************************************)
(* C4.  The noise filter retains exactly the entries whose weight is at    *)
(* least the threshold 0.001 and drops exactly those strictly below it: an *)
(* entry of weight exactly 0.001 is retained.                              *)
(***************************************************************************)
C4_FilterKeepsAtOrAboveThreshold ==
    Filtered =>
        LET raw == RawTable
            kept == {k \in DOMAIN raw : 1000 * raw[k].intersect_area >= raw[k].fsa_area}
        IN  /\ \A k \in DOMAIN raw :
                   (\E m \in DOMAIN intersect : intersect[m] = raw[k]) <=> k \in kept
            /\ \A m \in DOMAIN intersect : \E k \in kept : intersect[m] = raw[k]
            /\ Len(intersect) = Cardinality(kept)

\* An entry of weight exactly 0.001 is retained and another entry was dropped.
C4_Witness ==
    /\ Filtered
    /\ \E m \in DOMAIN intersect : intersect[m].overlap_percent = [num |-> 1, den |-> 1000]
    /\ Len(intersect) < Len(RawTable)

(***************************************************************************)
(* C5.  For an extensive field F, the value of every neighbourhood t with  *)
(* at least one mapping entry is the sum over the entries (s, t, w) of     *)
(* F(s) * w.  In the worked example (A: area 100, F = 10, 40 shared with   *)
(* T; B: area 50, F = 20, 30 shared with T) the weights are 0.40 and 0.60  *)
(* and the value of T is 16.                                               *)
(***************************************************************************)
IsExample ==
    /\ Len(fsas) = 2
    /\ Len(hoods) = 1
    /\ fsas[1].geometry = ExampleFsas[1]
    /\ fsas[2].geometry = ExampleFsas[2]
    /\ hoods[1].geometry = ExampleHoods[1]
    /\ UniqueFsaIds

ExampleField ==
    /\ statistic.kind = "extensive"
    /\ statistic.values[fsas[1].CFSAUID] = 10
    /\ statistic.values[fsas[2].CFSAUID] = 20

C5_ExtensiveValueIsWeightedSum ==
    /\ (pc = "done" /\ statistic.kind = "extensive") =>
        \A j \in DOMAIN estimate :
            LET rows == RowsOfTarget(intersect, estimate[j].AREA_LONG_CODE) IN
            rows # {} =>
                estimate[j].value =
                    SumRat(rows, [k \in DOMAIN intersect |->
                                     RatMul(Rat(statistic.values[intersect[k].CFSAUID], 1),
                                            intersect[k].overlap_percent)])
    /\ (Filtered /\ IsExample) =>
        /\ Len(intersect) = 2
        /\ intersect[1].overlap_percent = [num |-> 2, den |-> 5]
        /\ intersect[2].overlap_percent = [num |-> 3, den |-> 5]
    /\ (pc = "done" /\ IsExample /\ ExampleField) =>
        estimate[1].value = [num |-> 16, den |-> 1]

\* The worked example, interpolated.
C5_Witness ==
    /\ pc = "done"
    /\ IsExample
    /\ ExampleField
    /\ fsas[1].fsa_area = 100
    /\ fsas[2].fsa_area = 50
    /\ estimate[1].contributors = <<fsas[1].CFSAUID, fsas[2].CFSAUID>>

(***************************************************************************)
(* C6.  Extensive conservation.  When the neighbourhoods (disjoint, as a   *)
(* partition is) cover every FSA, the values of all neighbourhoods sum to  *)
(* the sum of V(s) over the FSAs less the sum of V(s) times the weight the *)
(* noise filter discarded for s; with nothing discarded the two totals are *)
(* equal, and otherwise the target total is the lower.  FSAs are source    *)
(* units of the data model: one record per identifier.                     *)
(***************************************************************************)
TargetTotal ==
    SumRat(DOMAIN estimate,
           [j \in DOMAIN estimate |->
               IF estimate[j].value = NaN THEN Zero ELSE estimate[j].value])

SourceTotal ==
    SumNat(DOMAIN fsas, [i \in DOMAIN fsas |-> statistic.values[fsas[i].CFSAUID]])

DiscardedMass ==
    LET raw == RawTable
    IN  SumRat({k \in DOMAIN raw : BelowThreshold(raw[k])},
               [k \in DOMAIN raw |->
                   RatMul(Rat(statistic.values[raw[k].CFSAUID], 1), raw[k].overlap_percent)])

C6_ExtensiveConservation ==
    (/\ pc = "done"
     /\ statistic.kind = "extensive"
     /\ UniqueFsaIds
     /\ HoodsDisjoint
     /\ FullCoverage) =>
        /\ RatAdd(TargetTotal, DiscardedMass) = Rat(SourceTotal, 1)
        /\ ~SomeDropped => TargetTotal = Rat(SourceTotal, 1)
        /\ SomeDropped => RatLT(TargetTotal, Rat(SourceTotal, 1))

\* Full coverage of two FSAs with different values, one entry discarded by
\* the noise filter: the target total falls short of the source total.
C6_Witness ==
    /\ pc = "done"
    /\ statistic.kind = "extensive"
    /\ UniqueFsaIds
    /\ HoodsDisjoint
    /\ FullCoverage
    /\ Len(fsas) = 2
    /\ statistic.values[fsas[1].CFSAUID] # statistic.values[fsas[2].CFSAUID]
    /\ SomeDropped
    /\ TargetTotal # Rat(SourceTotal, 1)

(***************************************************************************)
(* C7.  Intensive identity.  If every FSA has the same intensive value c,  *)
(* every neighbourhood with at least one contributing FSA gets exactly c,  *)
(* whatever the weights, also when they do not sum to 1.                   *)
(***************************************************************************)
C7_IntensiveIdentity ==
    (pc = "done" /\ statistic.kind = "intensive") =>
        \A c \in FieldValues :
            (\A i \in DOMAIN fsas : statistic.values[fsas[i].CFSAUID] = c) =>
                \A j \in DOMAIN estimate :
                    estimate[j].contributors # <<>> => estimate[j].value = Rat(c, 1)

\* A neighbourhood fed by two FSAs with weights that do not sum to 1.
C7_Witness ==
    /\ pc = "done"
    /\ statistic.kind = "intensive"
    /\ Len(fsas) = 2
    /\ statistic.values[fsas[1].CFSAUID] = statistic.values[fsas[2].CFSAUID]
    /\ \E j \in DOMAIN estimate :
        /\ Len(estimate[j].contributors) = 2
        /\ estimate[j].total_weight # One
        /\ estimate[j].value = Rat(statistic.values[fsas[1].CFSAUID], 1)

(***************************************************************************)
(* C8.  The estimate has exactly one row per neighbourhood of the target   *)
(* layer, and a neighbourhood without any contributing FSA has the missing *)
(* marker as its value: its row is not dropped and its value is not zero.  *)
(***************************************************************************)
C8_MissingCoverageSurfaces ==
    pc = "done" =>
        /\ Len(estimate) = Len(hoods)
        /\ \A j \in DOMAIN hoods :
            /\ estimate[j].AREA_LONG_CODE = hoods[j].AREA_LONG_CODE
            /\ (RowsOfTarget(intersect, hoods[j].AREA_LONG_CODE) = {}
                    <=> estimate[j].value = NaN)
            /\ estimate[j].value # Zero

\* One neighbourhood with contributors, one without: the latter is present
\* and missing.
C8_Witness ==
    /\ pc = "done"
    /\ Len(hoods) = 2
    /\ \E j \in DOMAIN estimate : estimate[j].value = NaN /\ estimate[j].total_weight = Zero
    /\ \E j \in DOMAIN estimate : estimate[j].value # NaN

(***************************************************************************)
(* C9.  Disjoint-overlap equivalence.  When two non-overlapping            *)
(* neighbourhoods T1 and T2 together cover an FSA S (a source unit of the  *)
(* data model: one record per identifier), each holding a share            *)
(* of S at or above the noise threshold, the table has exactly one entry   *)
(* for each pair, weight(S, Tk) = area(S /\ Tk) / area(S), and the two     *)
(* weights sum to 1.                                                       *)
(***************************************************************************)
AtOrAboveThreshold(part, whole) == ThresholdDen * part >= ThresholdNum * whole

C9_DisjointOverlapEquivalence ==
    (Filtered /\ UniqueFsaIds) =>
        \A i \in DOMAIN fsas : \A j1, j2 \in DOMAIN hoods :
            LET S == Polygonal(fsas[i].geometry)
                P1 == S \cap hoods[j1].geometry
                P2 == S \cap hoods[j2].geometry
                R1 == RowsOfPair(intersect, fsas[i].CFSAUID, hoods[j1].AREA_LONG_CODE)
                R2 == RowsOfPair(intersect, fsas[i].CFSAUID, hoods[j2].AREA_LONG_CODE)
            IN  (/\ j1 # j2
                 /\ Polygonal(hoods[j1].geometry \cap hoods[j2].geometry) = {}
                 /\ P1 # {}
                 /\ P2 # {}
                 /\ S = P1 \cup P2
                 /\ AtOrAboveThreshold(Area(P1), Area(S))
                 /\ AtOrAboveThreshold(Area(P2), Area(S))) =>
                    /\ Cardinality(R1) = 1
                    /\ Cardinality(R2) = 1
                    /\ \A k1 \in R1, k2 \in R2 :
                        LET w1 == intersect[k1].overlap_percent
                            w2 == intersect[k2].overlap_percent
                        IN  /\ w1.num * Area(S) = Area(P1) * w1.den
                            /\ w2.num * Area(S) = Area(P2) * w2.den
                            /\ RatAdd(w1, w2) = One

\* An FSA cut by two disjoint neighbourhoods into unequal shares.
C9_Witness ==
    /\ Filtered
    /\ UniqueFsaIds
    /\ HoodsDisjoint
    /\ Len(hoods) = 2
    /\ \E i \in DOMAIN fsas :
        /\ Polygonal(fsas[i].geometry) \subseteq HoodsUnion
        /\ Cardinality(RowsOfSource(intersect, fsas[i].CFSAUID)) = 2
        /\ \E k \in RowsOfSource(intersect, fsas[i].CFSAUID) :
            /\ intersect[k].overlap_percent # [num |-> 1, den |-> 2]
            /\ intersect[k].overlap_percent # One

(***************************************************************************)
(* C10.  Area conservation.  With neighbourhoods that do not overlap, the  *)
(* intersection areas of the overlap records of an FSA sum to at most the  *)
(* FSA's total area, and to exactly that when the neighbourhoods cover it. *)
(***************************************************************************)
SourceArea(s) ==
    SumNat({i \in DOMAIN fsas : fsas[i].CFSAUID = s},
           [i \in DOMAIN fsas |-> Area(fsas[i].geometry)])

SourceCovered(s) ==
    \A i \in DOMAIN fsas :
        fsas[i].CFSAUID = s => Polygonal(fsas[i].geometry) \subseteq HoodsUnion

OverlapAreaOfSource(s) ==
    SumNat(RowsOfSource(intersect, s), [k \in DOMAIN intersect |-> intersect[k].intersect_area])

C10_AreaConservation ==
    (pc = "merge" /\ HoodsDisjoint) =>
        \A i \in DOMAIN fsas :
            LET s == fsas[i].CFSAUID IN
            /\ OverlapAreaOfSource(s) <= SourceArea(s)
            /\ SourceCovered(s) => OverlapAreaOfSource(s) = SourceArea(s)

\* One FSA covered by two disjoint neighbourhoods (two records, equality) and
\* another that the neighbourhoods leave uncovered (strictly less).
C10_Witness ==
    /\ pc = "merge"
    /\ HoodsDisjoint
    /\ UniqueFsaIds
    /\ \E i \in DOMAIN fsas :
        /\ Cardinality(RowsOfSource(intersect, fsas[i].CFSAUID)) = 2
        /\ OverlapAreaOfSource(fsas[i].CFSAUID) = Area(fsas[i].geometry)
    /\ \E i \in DOMAIN fsas :
        OverlapAreaOfSource(fsas[i].CFSAUID) < Area(fsas[i].geometry)

Range(seq) == {seq[k] : k \in DOMAIN seq}

\* view lists value v of column other in the row of key value u.
Lists(view, key, u, other, v) ==
    \E g \in DOMAIN view : view[g][key] = u /\ v \in Range(view[g][other])

C12_ViewsAgree ==
    [][(pc = "cell8" /\ pc' = "interpolate") =>
        /\ \A s \in Range(FsaIds), t \in Range(HoodIds) :
            /\ Lists(grouped, "CFSAUID", s, "AREA_LONG_CODE", t)
                    <=> (RowsOfPair(intersect, s, t) # {})
            /\ Lists(grouped', "AREA_LONG_CODE", t, "CFSAUID", s)
                    <=> (RowsOfPair(intersect, s, t) # {})
        /\ SumColumn(grouped, "overlap_percent") = SumColumn(intersect, "overlap_percent")
        /\ SumColumn(grouped', "overlap_percent") = SumColumn(intersect, "overlap_percent")
        /\ intersect' = intersect]_vars

\* Cell 8 has run on a many-to-many table: an FSA in two neighbourhoods and a
\* neighbourhood with two FSAs.
C12_Witness ==
    /\ pc = "interpolate"
    /\ \E g \in DOMAIN grouped : Cardinality(Range(grouped[g].CFSAUID)) = 2
    /\ \E s \in Range(FsaIds) :
        Cardinality({intersect[k].AREA_LONG_CODE : k \in RowsOfSource(intersect, s)}) = 2
    /\ Len(grouped) = 2

(***************************************************************************)
(* C13.  The mapping table holds at most one row per (source_id,           *)
(* target_id) pair, whatever the input layers, those in which an FSA       *)
(* identifier occurs on more than one record included.                     *)
(***************************************************************************)
C13_OneRowPerPair ==
    Filtered =>
        \A s \in Range(FsaIds), t \in Range(HoodIds) :
            Cardinality(RowsOfPair(intersect, s, t)) <= 1

\* The same, for layers in which every FSA identifier names one record.
C13_OneRowPerPairOfUniqueIds == UniqueFsaIds => C13_OneRowPerPair

(***************************************************************************)
(* C14.  The overlay yields a record for an FSA record and a neighbourhood *)
(* record exactly when their geometries share positive area: one row per   *)
(* such pair of records, carrying their identifiers and the polygons they  *)
(* share, and no other row.  A pair that only touches along a line or at   *)
(* a point gets no row.                                                    *)
(***************************************************************************)
\* The overlay has run and the merge has not.
Overlaid == pc \in {"intersect_area", "merge"}

\* The pairs of records that share positive area.
OverlapPairs ==
    {p \in (DOMAIN fsas) \X (DOMAIN hoods) :
        Area(Intersection(fsas[p[1]].geometry, hoods[p[2]].geometry)) > 0}

\* Row k is the overlap record of FSA record i and neighbourhood record j.
RecordOf(k, i, j) ==
    /\ intersect[k].CFSAUID = fsas[i].CFSAUID
    /\ intersect[k].AREA_LONG_CODE = hoods[j].AREA_LONG_CODE
    /\ intersect[k].geometry = {a \in fsas[i].geometry \cap hoods[j].geometry : a[2] > 0}

C14_RecordIffPositiveArea ==
    Overlaid =>
        /\ Len(intersect) = Cardinality(OverlapPairs)
        /\ \A p \in OverlapPairs : \E k \in DOMAIN intersect : RecordOf(k, p[1], p[2])
        /\ \A k \in DOMAIN intersect : \E p \in OverlapPairs : RecordOf(k, p[1], p[2])
        /\ \A k \in DOMAIN intersect : Area(intersect[k].geometry) > 0

\* The overlay has run on layers in which the first FSA and the first
\* neighbourhood meet along a line only, and other pairs share area.
C14_Witness ==
    /\ Overlaid
    /\ Intersection(fsas[1].geometry, hoods[1].geometry) = {Edge}
    /\ RowsOfPair(intersect, fsas[1].CFSAUID, hoods[1].AREA_LONG_CODE) = {}
    /\ Len(intersect) >= 2

(***************************************************************************)
(* C15.  Layers that are in different coordinate reference systems, that   *)
(* lack one, that are in one which is not equal-area, or in which an       *)
(* identifier is duplicated within a partition, end the run in an error    *)
(* before any overlap record or mapping entry exists; the layers are not   *)
(* reprojected or repaired.  Stated on the step taken from the layers as   *)
(* read.                                                                   *)
(***************************************************************************)
\* The equal-area CRS of cell 5.
EqualArea == "EPSG:3347"

CrsOf(df) == {df[i].crs : i \in DOMAIN df}

UniqueHoodIds ==
    \A i, j \in DOMAIN hoods : hoods[i].AREA_LONG_CODE = hoods[j].AREA_LONG_CODE => i = j

\* The layers are in one and the same equal-area CRS and their identifiers
\* are unique.
AcceptableInput ==
    /\ CrsOf(fsas) \cup CrsOf(hoods) = {EqualArea}
    /\ UniqueFsaIds
    /\ UniqueHoodIds

C15_BadInputEndsInError ==
    [][(pc = "cell5" /\ ~AcceptableInput) =>
        /\ pc' = "InputError"
        /\ intersect' = <<>>
        /\ fsas' = fsas
        /\ hoods' = hoods]_vars

(***************************************************************************)
(* C16.  The noise filter keeps, per FSA, a record of the sum of the       *)
(* weights it discarded: the retained weights of the FSA and the recorded  *)
(* discarded weight add up to the sum of its weights before the filter.    *)
(***************************************************************************)
\* The rows of every frame the notebook holds.
FrameRows == Range(fsas) \cup Range(hoods) \cup Range(intersect) \cup Range(grouped)

RetainedWeight(s) == SumRat(RowsOfSource(intersect, s), Weights(intersect))

RawWeight(s) == LET raw == RawTable IN SumRat(RowsOfSource(raw, s), Weights(raw))

C16_DiscardedWeightRecorded ==
    Filtered =>
        \A s \in SourceIds :
            \E r \in FrameRows :
                /\ "discarded_weight" \in DOMAIN r
                /\ r.CFSAUID = s
                /\ RatAdd(RetainedWeight(s), r.discarded_weight) = RawWeight(s)

\* What holds instead: no frame has a column beyond those of cells 3 to 8,
\* none of which holds a discarded weight.
C16_NoSuchColumn ==
    (UNION {DOMAIN r : r \in FrameRows})
        \subseteq {"CFSAUID", "AREA_LONG_CODE", "geometry", "crs", "fsa_area",
                   "intersect_area", "overlap_percent"}

(***************************************************************************)
(* C17.  The coverage report lists an FSA exactly when its total retained  *)
(* weight is below the acceptance bound; an FSA all of whose entries were  *)
(* dropped, whose retained weight is 0, is listed.  The report is read off *)
(* the per-FSA view of cell 7: the rows whose sum is below the bound.      *)
(***************************************************************************)
\* The acceptance bound for retained weight (default 0.99).
AcceptanceBound == [num |-> 99, den |-> 100]

Shortfall(weight) == RatLT(weight, AcceptanceBound)

\* The view shows key value u with a weight below the acceptance bound.
ShownBelowBound(view, key, u) ==
    \E g \in DOMAIN view : view[g][key] = u /\ Shortfall(view[g].overlap_percent)

C17_ReportListsShortfall ==
    pc = "cell8" =>
        \A s \in SourceIds : Shortfall(RetainedWeight(s)) <=> ShownBelowBound(grouped, "CFSAUID", s)

\* What holds instead: the view of cell 7 has a row for an FSA exactly when
\* the FSA has a retained entry, and the row holds its retained weight.
C17_ViewListsFsasWithEntries ==
    pc = "cell8" =>
        /\ \A s \in SourceIds :
            (\E g \in DOMAIN grouped : grouped[g].CFSAUID = s)
                <=> (RowsOfSource(intersect, s) # {})
        /\ \A g \in DOMAIN grouped :
            grouped[g].overlap_percent = RetainedWeight(grouped[g].CFSAUID)

(***************************************************************************)
(* C18.  A coverage shortfall does not abort the run, and at the end of    *)
(* the run every FSA and every neighbourhood below the acceptance bound is *)
(* in the coverage report.  At the end of the run the report is the view   *)
(* of cell 8: a neighbourhood is in it when it has a row, an FSA when a    *)
(* row lists it.                                                           *)
(***************************************************************************)
TargetIds == {hoods[j].AREA_LONG_CODE : j \in DOMAIN hoods}

TargetWeight(t) == SumRat(RowsOfTarget(intersect, t), Weights(intersect))

C18_ShortfallReportedAtEnd ==
    pc = "done" =>
        /\ Len(estimate) = Len(hoods)
        /\ \A t \in TargetIds :
            Shortfall(TargetWeight(t))
                => \E g \in DOMAIN grouped : grouped[g].AREA_LONG_CODE = t
        /\ \A s \in SourceIds :
            Shortfall(RetainedWeight(s))
                => \E g \in DOMAIN grouped : s \in Range(grouped[g].CFSAUID)

\* What holds instead: whatever the coverage, the run ends with an estimate
\* that has one row per neighbourhood, or with a classification error.
C18_ShortfallDoesNotAbort ==
    /\ pc \in {"cell5", "fsa_area", "overlay", "intersect_area", "merge",
                "overlap_percent", "filter", "cell7", "rebuilt", "cell8",
                "interpolate", "done", "ClassificationError"}
    /\ pc = "done" => Len(estimate) = Len(hoods)

(***************************************************************************)
(* C19.  Interpolating a field that has no declared classification ends in *)
(* a classification error and yields no estimate; an estimate exists only  *)
(* for a field declared extensive or intensive.                            *)
(***************************************************************************)
C19_UnclassifiedFieldIsRefused ==
    /\ pc \in {"done", "ClassificationError"} =>
        IF statistic.kind \in {"extensive", "intensive"}
        THEN /\ pc = "done"
             /\ Len(estimate) = Len(hoods)
        ELSE /\ pc = "ClassificationError"
             /\ estimate = <<>>
    /\ estimate # <<>> => pc = "done"

\* A field without classification was requested on a table of several rows.
C19_Witness ==
    /\ pc = "ClassificationError"
    /\ statistic.kind = None
    /\ Len(intersect) >= 2
    /\ Len(hoods) = 2

(***************************************************************************)
(* C20.  As claimed: the per-neighbourhood coverage value is the share of  *)
(* the neighbourhood's own area that its retained overlaps cover (the sum  *)
(* of their intersection areas over the neighbourhood's area), so it is at *)
(* most 1.                                                                 *)
(***************************************************************************)
\* grouped holds the view of cell 8.
GroupedByTarget == pc \in {"interpolate", "done", "ClassificationError"}

RetainedAreaOfTarget(t) ==
    SumNat(RowsOfTarget(intersect, t), [k \in DOMAIN intersect |-> intersect[k].intersect_area])

C20_ValueIsShareOfTargetArea ==
    GroupedByTarget =>
        \A g \in DOMAIN grouped : \A j \in DOMAIN hoods :
            hoods[j].AREA_LONG_CODE = grouped[g].AREA_LONG_CODE =>
                /\ grouped[g].overlap_percent.num * Area(hoods[j].geometry)
                       = grouped[g].overlap_percent.den
                            * RetainedAreaOfTarget(hoods[j].AREA_LONG_CODE)
                /\ RatGE(One, grouped[g].overlap_percent)

(***************************************************************************)
(* What holds of cell 8 instead: the per-neighbourhood value is the sum of *)
(* the weights of the neighbourhood's retained entries, each the share of  *)
(* an FSA's area; it is at least the threshold and at most the number of   *)
(* the neighbourhood's entries, and it is not bounded by 1.                *)
(***************************************************************************)
C20_ValueIsSumOfSourceShares ==
    GroupedByTarget =>
        \A g \in DOMAIN grouped :
            LET rows == RowsOfTarget(intersect, grouped[g].AREA_LONG_CODE) IN
            /\ rows # {}
            /\ grouped[g].overlap_percent
                   = SumRat(rows, [k \in DOMAIN intersect |->
                                     Rat(intersect[k].intersect_area, intersect[k].fsa_area)])
            /\ RatGE(grouped[g].overlap_percent, Threshold)
            /\ RatGE(Rat(Cardinality(rows), 1), grouped[g].overlap_percent)

\* A neighbourhood made of two whole FSAs, which do not overlap: its value
\* is 2.
C20_ValueAboveOne ==
    /\ GroupedByTarget
    /\ UniqueFsaIds
    /\ Len(fsas) = 2
    /\ \E g \in DOMAIN grouped : \E j \in DOMAIN hoods :
        /\ hoods[j].AREA_LONG_CODE = grouped[g].AREA_LONG_CODE
        /\ Polygonal(hoods[j].geometry)
               = Polygonal(fsas[1].geometry) \cup Polygonal(fsas[2].geometry)
        /\ grouped[g].overlap_percent = Rat(2, 1)

(***************************************************************************)
(* One run of the whole pipeline of the specification: cells 5 to 8, the   *)
(* interpolator, and the coverage validator once more after it (section    *)
(* 4.5: "runs after mapping table construction and again after             *)
(* interpolation").  The validator after the table is cells 7 and 8; the   *)
(* validator after interpolation rebuilds the view cell 8 left.            *)
(***************************************************************************)
ValidateAgain ==
    /\ pc = "done"
    /\ grouped' = groupby(intersect, "AREA_LONG_CODE", "CFSAUID", HoodIds)
    /\ pc' = "validated"
    /\ UNCHANGED <<fsas, hoods, intersect, statistic, estimate, chunks, df_theft_clean>>

InitPipeline ==
    \/ InitFrom({1}, {FsaIds}, Loaded)
    \/ Loaded(FsaIds, ExampleFsas, ExampleHoods)

NextPipeline ==
    \/ Reproject
    \/ FsaArea
    \/ Overlay
    \/ IntersectArea
    \/ Merge
    \/ OverlapPercent
    \/ Filter
    \/ GroupBySource
    \/ GroupByTarget
    \/ Interpolate
    \/ ValidateAgain

SpecPipeline == InitPipeline /\ [][NextPipeline]_vars

\* The stage that has run last when the program is at p: 0 ingestion, 1
\* overlap calculation, 2 weight normalisation, 3 mapping-table
\* construction, 4 coverage validation, 5 interpolation, 6 coverage
\* validation again.
StageDone(p) ==
    CASE p \in {"cell5", "fsa_area", "overlay"} -> 0
      [] p \in {"intersect_area", "merge"} -> 1
      [] p \in {"overlap_percent", "filter"} -> 2
      [] p = "cell7" -> 3
      [] p \in {"cell8", "interpolate"} -> 4
      [] p \in {"done", "ClassificationError"} -> 5
      [] p = "validated" -> 6

(***************************************************************************)
(* C21.  In every run the stages come in the order overlap calculation,    *)
(* weight normalisation, mapping-table construction, coverage validation,  *)
(* interpolation, coverage validation: a step stays in its stage or enters *)
(* the next one, none is skipped or repeated, and the interpolator starts  *)
(* only on the complete mapping table.                                     *)
(***************************************************************************)
C21_StagesInOrder ==
    [][/\ StageDone(pc') \in {StageDone(pc), StageDone(pc) + 1}
       /\ StageDone(pc') = 5 =>
            /\ StageDone(pc) = 4
            /\ intersect = build(fsas, hoods)
            /\ grouped = groupby(intersect, "AREA_LONG_CODE", "CFSAUID", HoodIds)
       /\ StageDone(pc') = 6 => estimate # <<>>]_vars

\* A run that went through all six stages, on a table of several entries.
C21_Witness ==
    /\ pc = "validated"
    /\ Len(intersect) >= 2
    /\ Len(estimate) = 2
    /\ Len(grouped) = 2

NChunks == 2

RECURSIVE UnitsOf(_, _, _)
UnitsOf(assign, c, i) ==
    IF i > Len(assign) THEN <<>>
    ELSE (IF assign[i] = c THEN <<i>> ELSE <<>>) \o UnitsOf(assign, c, i + 1)

Partition ==
    /\ pc = "overlay"
    /\ \E assign \in [1..Len(fsas) -> 1..NChunks] :
          chunks' = [c \in 1..NChunks |-> [todo |-> UnitsOf(assign, c, 1), out |-> <<>>]]
    /\ pc' = "chunks"
    /\ UNCHANGED <<fsas, hoods, intersect, grouped, statistic, estimate, df_theft_clean>>

\* One chunk intersects its next source unit with every target unit.
ChunkStep(c) ==
    /\ pc = "chunks"
    /\ chunks[c].todo # <<>>
    /\ chunks' = [chunks EXCEPT ![c] =
                    [todo |-> Tail(chunks[c].todo),
                     out |-> chunks[c].out
                             \o overlay(<<fsas[Head(chunks[c].todo)]>>, hoods)]]
    /\ UNCHANGED <<pc, fsas, hoods, intersect, grouped, statistic, estimate, df_theft_clean>>

RECURSIVE Concat(_)
Concat(seqs) == IF seqs = <<>> THEN <<>> ELSE Head(seqs) \o Concat(Tail(seqs))

\* Fault: each chunk's records assigned to the result instead of appended,
\* so that the last chunk's records are all that is left.
GatherLastChunk ==
    /\ pc = "chunks"
    /\ \A c \in 1..NChunks : chunks[c].todo = <<>>
    /\ intersect' = chunks[NChunks].out
    /\ pc' = "intersect_area"
    /\ UNCHANGED <<fsas, hoods, grouped, statistic, estimate, chunks, df_theft_clean>>

Gather ==
    /\ pc = "chunks"
    /\ \A c \in 1..NChunks : chunks[c].todo = <<>>
    /\ intersect' = Concat([c \in 1..NChunks |-> chunks[c].out])
    /\ pc' = "intersect_area"
    /\ UNCHANGED <<fsas, hoods, grouped, statistic, estimate, chunks, df_theft_clean>>

NextChunks ==
    \/ Reproject
    \/ FsaArea
    \/ Partition
    \/ \E c \in 1..NChunks : ChunkStep(c)
    \/ Gather

SpecChunks == InitPipeline /\ [][NextChunks]_vars

\* C23: however the source units are dealt to chunks and in whatever order
\* the chunks take their steps, the records put together at the end are the
\* records of the sequential overlay of the whole source layer (the same
\* records, as many of them); and a step of one chunk changes the pending
\* units and the records of that chunk alone, the layers and every other
\* chunk being left as they were.
C23_ChunkedOverlayIsSequentialOverlay ==
    [][/\ pc' = "intersect_area" =>
            /\ Range(intersect') = Range(overlay(fsas, hoods))
            /\ Len(intersect') = Len(overlay(fsas, hoods))
       /\ (pc = "chunks" /\ pc' = "chunks") =>
            /\ Cardinality({c \in 1..NChunks : chunks'[c] # chunks[c]}) = 1
            /\ fsas' = fsas /\ hoods' = hoods /\ intersect' = intersect]_vars

\* Two chunks each produced records, and put together they stand in another
\* order than the sequential overlay's.
C23_Witness ==
    /\ pc = "intersect_area"
    /\ \A c \in 1..NChunks : chunks[c].out # <<>>
    /\ Len(intersect) >= 3
    /\ intersect # overlay(fsas, hoods)


(***************************************************************************)
(* Intensive fields.                                                       *)
(***************************************************************************)
\* The entries of the mapping table that feed target t, their weights summed
\* and their weighted values summed, computed from the table itself.
WeightOf(t) == SumRat(RowsOfTarget(intersect, t), Weights(intersect))

WeightedValuesOf(t) ==
    SumRat(RowsOfTarget(intersect, t),
           [k \in DOMAIN intersect |->
               RatMul(Rat(statistic.values[intersect[k].CFSAUID], 1),
                      intersect[k].overlap_percent)])

Interpolated == pc \in {"done", "validated"}

\* C24: for an intensive field, the value of every target that has a
\* contributing source is the sum of w * G(s) over its entries divided by
\* the sum of w over the same entries; where the weights do not sum to 1 it
\* differs from the plain weighted sum; and it lies between the least and
\* the greatest G(s) of the contributing sources.
C24_IntensiveIsWeightedAverage ==
    (Interpolated /\ statistic.kind = "intensive") =>
        \A j \in DOMAIN estimate :
            LET t == estimate[j].AREA_LONG_CODE
                rows == RowsOfTarget(intersect, t)
                G == [k \in rows |-> Rat(statistic.values[intersect[k].CFSAUID], 1)]
            IN  rows # {} =>
                    /\ estimate[j].value = RatDiv(WeightedValuesOf(t), WeightOf(t))
                    /\ WeightOf(t) # One => estimate[j].value # WeightedValuesOf(t)
                    /\ \E k \in rows : RatGE(estimate[j].value, G[k])
                    /\ \E k \in rows : RatGE(G[k], estimate[j].value)

\* A target fed by two sources with different values and different weights
\* that do not sum to 1: its value lies strictly between the two.
C24_Witness ==
    /\ Interpolated
    /\ statistic.kind = "intensive"
    /\ \E j \in DOMAIN estimate :
        LET rows == RowsOfTarget(intersect, estimate[j].AREA_LONG_CODE)
        IN  /\ Cardinality(rows) = 2
            /\ WeightOf(estimate[j].AREA_LONG_CODE) # One
            /\ \E k, l \in rows :
                /\ intersect[k].overlap_percent # intersect[l].overlap_percent
                /\ RatLT(Rat(statistic.values[intersect[k].CFSAUID], 1), estimate[j].value)
                /\ RatLT(estimate[j].value, Rat(statistic.values[intersect[l].CFSAUID], 1))


(***************************************************************************)
(* Overlap areas against the areas of the two units.                       *)
(***************************************************************************)
HasIntersectArea == \A k \in DOMAIN intersect : "intersect_area" \in DOMAIN intersect[k]

\* C25: the area of every overlap record is at most the total area of its
\* FSA (the fsa_area the record carries, which is the area of a record of
\* the source layer with the record's identifier) and at most the total area
\* of its neighbourhood.
C25_OverlapAreaAtMostBothAreas ==
    (pc # "overlay" /\ pc # "intersect_area" /\ HasIntersectArea) =>
        \A k \in DOMAIN intersect :
            /\ intersect[k].intersect_area <= intersect[k].fsa_area
            /\ \E i \in DOMAIN fsas :
                /\ fsas[i].CFSAUID = intersect[k].CFSAUID
                /\ Area(fsas[i].geometry) = intersect[k].fsa_area
            /\ \A j \in DOMAIN hoods :
                hoods[j].AREA_LONG_CODE = intersect[k].AREA_LONG_CODE =>
                    intersect[k].intersect_area <= Area(hoods[j].geometry)

\* One record takes up its whole neighbourhood and part of its FSA, another
\* its whole FSA and part of its neighbourhood.
C25_Witness ==
    /\ pc = "merge"
    /\ \E k \in DOMAIN intersect : \E j \in DOMAIN hoods :
        /\ hoods[j].AREA_LONG_CODE = intersect[k].AREA_LONG_CODE
        /\ intersect[k].intersect_area = Area(hoods[j].geometry)
        /\ intersect[k].intersect_area < intersect[k].fsa_area
    /\ \E k \in DOMAIN intersect : \E j \in DOMAIN hoods :
        /\ hoods[j].AREA_LONG_CODE = intersect[k].AREA_LONG_CODE
        /\ intersect[k].intersect_area < Area(hoods[j].geometry)
        /\ intersect[k].intersect_area = intersect[k].fsa_area


(***************************************************************************)
(* Notebook 01, cell 14: the cleaning of the theft table.  A cell of a     *)
(* numeric column is an exact rational or NaN; a cell of a categorical     *)
(* column is a string or NA.                                               *)
(***************************************************************************)
MaxRows == 3

\* The missing marker of a categorical column (read_csv: na_values "NSA").
NA == "NA"

Num(n) == Rat(n, 1)

DivisionIds == <<"D11", "D12">>

NeighbourhoodName ==
    [h \in Range(HoodIds) |->
        IF h = HoodIds[1] THEN "West Humber-Clairville"
        ELSE "Mount Olive-Silverstone-Jamestown"]

\* The occurrence-date components of a row: all present, the hour missing,
\* the year missing, all missing.
Complete ==
    [OCC_YEAR |-> Num(2020), OCC_MONTH |-> "January", OCC_DAY |-> Num(1),
     OCC_DOY |-> Num(1), OCC_HOUR |-> Num(5)]

NoHour == [Complete EXCEPT !.OCC_HOUR = NaN]

NoYear == [Complete EXCEPT !.OCC_YEAR = NaN]

NoDate ==
    [OCC_YEAR |-> NaN, OCC_MONTH |-> NA, OCC_DAY |-> NaN, OCC_DOY |-> NaN,
     OCC_HOUR |-> NaN]

\* One row of the table: OCC_DATE and REPORT_DATE are held by their hour.
TheftRow(id, date, occ_date, div, hood, lat, long) ==
    date @@
    [EVENT_UNIQUE_ID |-> id, OCC_DATE |-> occ_date,
     REPORT_DATE |-> 0, REPORT_HOUR |-> Num(9),
     DIVISION |-> div, HOOD_158 |-> hood,
     NEIGHBOURHOOD_158 |-> IF hood = NA THEN NA ELSE NeighbourhoodName[hood],
     LAT_WGS84 |-> lat, LONG_WGS84 |-> long]

\* The rows a table is drawn from.
TheftRows ==
    {TheftRow("GO-1", Complete, 5, "D11", "001", Num(10), Num(20)),
     TheftRow("GO-2", Complete, 5, "D11", "001", Num(30), Num(40)),
     TheftRow("GO-1", Complete, 5, "D11", "001", Num(30), Num(40)),
     TheftRow("GO-1", Complete, 0, "D11", "001", Num(10), Num(20)),
     TheftRow("GO-2", Complete, 5, "D11", "002", Num(30), Num(40)),
     TheftRow("GO-2", Complete, 5, "D11", NA, NaN, NaN),
     TheftRow("GO-1", Complete, 5, "D11", NA, Num(10), Num(20)),
     TheftRow("GO-2", Complete, 5, "D12", NA, NaN, NaN),
     TheftRow("GO-1", Complete, 5, NA, NA, Num(10), Num(20)),
     TheftRow("GO-2", Complete, 5, NA, NA, NaN, NaN),
     TheftRow("GO-1", Complete, 5, "D12", "002", NaN, NaN),
     TheftRow("GO-2", Complete, 5, "D11", "001", Num(10), NaN),
     TheftRow("GO-1", Complete, 5, NA, "001", NaN, NaN),
     TheftRow("GO-2", NoHour, 5, "D11", "001", Num(10), Num(20)),
     TheftRow("GO-2", NoYear, 5, "D11", "001", Num(30), Num(40)),
     TheftRow("GO-1", NoDate, 5, "D11", "001", Num(10), Num(20))}

InitTheft ==
    /\ pc = "cell14"
    /\ df_theft_clean \in UNION {[1..n -> TheftRows] : n \in 1..MaxRows}
    /\ fsas = <<>>
    /\ hoods = <<>>
    /\ intersect = <<>>
    /\ grouped = <<>>
    /\ statistic = None
    /\ estimate = <<>>
    /\ chunks = <<>>

\* The rows of df at the positions in keep, in their order: a boolean mask
\* applied to the frame.
RECURSIVE Masked(_, _, _)
Masked(df, keep, i) ==
    IF i > Len(df) THEN <<>>
    ELSE (IF i \in keep THEN <<df[i]>> ELSE <<>>) \o Masked(df, keep, i + 1)

\* x["OCC_DATE"].replace(hour=int(x["OCC_HOUR"])) if pd.notnull(x["OCC_HOUR"])
FixHour(row, date, hour) ==
    IF row[hour] # NaN THEN [row EXCEPT ![date] = row[hour].num] ELSE row

FixTime ==
    /\ pc = "cell14"
    /\ df_theft_clean' =
          [i \in 1..Len(df_theft_clean) |->
              FixHour(FixHour(df_theft_clean[i], "REPORT_DATE", "REPORT_HOUR"),
                      "OCC_DATE", "OCC_HOUR")]
    /\ pc' = "drop_duplicates"
    /\ UNCHANGED <<fsas, hoods, intersect, grouped, statistic, estimate, chunks>>

\* drop_duplicates(keep="first"): a row goes when an earlier row equals it in
\* every column.
drop_duplicates(df) ==
    Masked(df, {i \in DOMAIN df : \A j \in 1..(i - 1) : df[j] # df[i]}, 1)

DropDuplicates ==
    /\ pc = "drop_duplicates"
    /\ df_theft_clean' = drop_duplicates(df_theft_clean)
    /\ pc' = "dropna"
    /\ UNCHANGED <<fsas, hoods, intersect, grouped, statistic, estimate, chunks>>

\* dropna(subset=..., how="all"): a row goes when all the columns of the
\* subset are missing in it.
dropna_all(df, subset) ==
    Masked(df, {i \in DOMAIN df : \E c \in subset : df[i][c] # NaN}, 1)

DropNa ==
    /\ pc = "dropna"
    /\ df_theft_clean' = dropna_all(df_theft_clean, {"OCC_YEAR", "OCC_DAY", "OCC_DOY"})
    /\ pc' = "drop_no_geo"
    /\ UNCHANGED <<fsas, hoods, intersect, grouped, statistic, estimate, chunks>>

NoGeo(row) == row.LAT_WGS84 = NaN /\ row.HOOD_158 = NA /\ row.DIVISION = NA

DropNoGeo ==
    /\ pc = "drop_no_geo"
    /\ df_theft_clean' =
          Masked(df_theft_clean, {i \in DOMAIN df_theft_clean : ~NoGeo(df_theft_clean[i])}, 1)
    /\ pc' = "impute_hood"
    /\ UNCHANGED <<fsas, hoods, intersect, grouped, statistic, estimate, chunks>>

\* s.mode().iat[0]: the most frequent category, the first in the order of the
\* categories among those that tie.
CountOf(df, col, v) == Cardinality({i \in DOMAIN df : df[i][col] = v})

ModeOf(df, col, cats) ==
    LET best == CHOOSE k \in DOMAIN cats :
                   /\ \A l \in DOMAIN cats : CountOf(df, col, cats[l]) <= CountOf(df, col, cats[k])
                   /\ \A l \in 1..(k - 1) : CountOf(df, col, cats[l]) < CountOf(df, col, cats[k])
    IN  cats[best]

\* DIVISION -> modal HOOD_158 over the rows with a known hood; a division
\* without such a row maps to NA.
hood_mode_by_div(df) ==
    [d \in Range(DivisionIds) |->
        LET rows == SelectSeq(df, LAMBDA r : r.HOOD_158 # NA /\ r.DIVISION = d)
        IN  IF rows = <<>> THEN NA ELSE ModeOf(rows, "HOOD_158", HoodIds)]

\* HOOD_158 -> NEIGHBOURHOOD_158 over the rows that have both.
name_lookup(df) ==
    [h \in Range(HoodIds) |->
        LET rows == SelectSeq(df, LAMBDA r : r.HOOD_158 = h /\ r.NEIGHBOURHOOD_158 # NA)
        IN  IF rows = <<>> THEN NA ELSE rows[1].NEIGHBOURHOOD_158]

ImputedHood(row, modes, names) ==
    IF row.HOOD_158 = NA /\ row.DIVISION # NA
    THEN LET h == modes[row.DIVISION]
         IN  [row EXCEPT !.HOOD_158 = h,
                         !.NEIGHBOURHOOD_158 = IF h = NA THEN NA ELSE names[h]]
    ELSE row

ImputeHood ==
    /\ pc = "impute_hood"
    /\ df_theft_clean' =
          [i \in 1..Len(df_theft_clean) |->
              ImputedHood(df_theft_clean[i], hood_mode_by_div(df_theft_clean),
                          name_lookup(df_theft_clean))]
    /\ pc' = "impute_coords"
    /\ UNCHANGED <<fsas, hoods, intersect, grouped, statistic, estimate, chunks>>

\* The values of a sequence in ascending order.
RECURSIVE Sorted(_)
Sorted(seq) ==
    IF seq = <<>> THEN <<>>
    ELSE LET least == CHOOSE k \in DOMAIN seq : \A l \in DOMAIN seq : ~RatLT(seq[l], seq[k])
         IN  <<seq[least]>> \o Sorted(SubSeq(seq, 1, least - 1) \o SubSeq(seq, least + 1, Len(seq)))

\* median(): of the values present; NaN when there is none.
Median(seq) ==
    LET present == Sorted(SelectSeq(seq, LAMBDA x : x # NaN))
        n == Len(present)
    IN  IF n = 0 THEN NaN
        ELSE IF n % 2 = 1 THEN present[(n + 1) \div 2]
        ELSE RatDiv(RatAdd(present[n \div 2], present[n \div 2 + 1]), Num(2))

\* groupby("HOOD_158", observed=False)[["LAT_WGS84", "LONG_WGS84"]].median()
Centroids(df) ==
    [h \in Range(HoodIds) |->
        LET rows == SelectSeq(df, LAMBDA r : r.HOOD_158 = h)
        IN  [LAT_WGS84 |-> Median(Column(rows, "LAT_WGS84")),
             LONG_WGS84 |-> Median(Column(rows, "LONG_WGS84"))]]

CentroidRow(row, centroids) ==
    IF row.HOOD_158 = NA
    THEN row @@ [LAT_WGS84_cent |-> NaN, LONG_WGS84_cent |-> NaN]
    ELSE row @@ [LAT_WGS84_cent |-> centroids[row.HOOD_158].LAT_WGS84,
                 LONG_WGS84_cent |-> centroids[row.HOOD_158].LONG_WGS84]

\* Fault: the joined rows come out in the order of the key (the hoods in
\* the order of their categories, the rows without a hood last).
join_sorted(left, centroids) ==
    LET joined == [i \in 1..Len(left) |-> CentroidRow(left[i], centroids)]
    IN  Concat([k \in 1..Len(HoodIds) |->
                   SelectSeq(joined, LAMBDA r : r.HOOD_158 = HoodIds[k])])
        \o SelectSeq(joined, LAMBDA r : r.HOOD_158 = NA)

\* set_index("HOOD_158").join(centroids, rsuffix="_cent"): a left join on the
\* index, the rows of the left frame in their order.
join(left, centroids) ==
    [i \in 1..Len(left) |-> CentroidRow(left[i], centroids)]

fillna(x, y) == IF x = NaN THEN y ELSE x

\* The two coordinate columns after the fill, by position.
FilledCoordinates(df) ==
    LET joined == join(df, Centroids(df))
    IN  [i \in 1..Len(joined) |->
            [LAT_WGS84 |-> fillna(joined[i].LAT_WGS84, joined[i].LAT_WGS84_cent),
             LONG_WGS84 |-> fillna(joined[i].LONG_WGS84, joined[i].LONG_WGS84_cent)]]

ImputeCoords ==
    /\ pc = "impute_coords"
    /\ df_theft_clean' =
          LET filled == FilledCoordinates(df_theft_clean)
          IN  [i \in 1..Len(df_theft_clean) |->
                  [df_theft_clean[i] EXCEPT !.LAT_WGS84 = filled[i].LAT_WGS84,
                                            !.LONG_WGS84 = filled[i].LONG_WGS84]]
    /\ pc' = "cleaned"
    /\ UNCHANGED <<fsas, hoods, intersect, grouped, statistic, estimate, chunks>>

NextTheft ==
    \/ FixTime
    \/ DropDuplicates
    \/ DropNa
    \/ DropNoGeo
    \/ ImputeHood
    \/ ImputeCoords

SpecTheft == InitTheft /\ [][NextTheft]_vars


(***************************************************************************)
(* The cleaned theft table.                                                *)
(***************************************************************************)
Cleaned == pc = "cleaned"

\* C26: after the cleaning every remaining row has an EVENT_UNIQUE_ID that
\* no other remaining row has, whatever the table was (two rows that share
\* an identifier and differ in another column included).
C26_EventIdsDistinct ==
    Cleaned =>
        \A i, j \in DOMAIN df_theft_clean :
            df_theft_clean[i].EVENT_UNIQUE_ID = df_theft_clean[j].EVENT_UNIQUE_ID => i = j

\* What drop_duplicates leaves, seen right after it: no two rows alike in
\* every column.
C26_NoTwoRowsAlike ==
    pc = "dropna" =>
        \A i, j \in DOMAIN df_theft_clean :
            df_theft_clean[i] = df_theft_clean[j] => i = j

\* Two rows that differed in the hour of OCC_DATE alone were made alike by
\* the fix of the hour, and one of them is gone.
C26_DuplicateDropped ==
    /\ pc = "dropna"
    /\ Len(df_theft_clean) = MaxRows - 1
    /\ \A i, j \in DOMAIN df_theft_clean :
        df_theft_clean[i].EVENT_UNIQUE_ID = df_theft_clean[j].EVENT_UNIQUE_ID => i = j

\* C27: after the cleaning no remaining row has a missing HOOD_158, and no
\* remaining row has a missing LAT_WGS84 or LONG_WGS84.
C27_NoMissingHoodOrCoordinates ==
    Cleaned =>
        \A i \in DOMAIN df_theft_clean :
            /\ df_theft_clean[i].HOOD_158 # NA
            /\ df_theft_clean[i].LAT_WGS84 # NaN
            /\ df_theft_clean[i].LONG_WGS84 # NaN

\* What the imputation does reach: a hood is still missing only where the
\* division is missing or has no row with a known hood, and a coordinate is
\* still missing only where the hood is missing or no row of the hood has
\* that coordinate.
C27_MissingOnlyWhereNothingToImputeFrom ==
    Cleaned =>
        \A i \in DOMAIN df_theft_clean :
            LET row == df_theft_clean[i] IN
            /\ row.HOOD_158 = NA =>
                \/ row.DIVISION = NA
                \/ \A j \in DOMAIN df_theft_clean :
                      df_theft_clean[j].DIVISION = row.DIVISION =>
                          df_theft_clean[j].HOOD_158 = NA
            /\ \A c \in {"LAT_WGS84", "LONG_WGS84"} :
                row[c] = NaN =>
                    \/ row.HOOD_158 = NA
                    \/ \A j \in DOMAIN df_theft_clean :
                          df_theft_clean[j].HOOD_158 = row.HOOD_158 =>
                              df_theft_clean[j][c] = NaN

\* C28: after the cleaning no remaining row is missing OCC_YEAR, OCC_MONTH,
\* OCC_DAY or OCC_HOUR.
C28_NoMissingOccComponent ==
    Cleaned =>
        \A i \in DOMAIN df_theft_clean :
            /\ df_theft_clean[i].OCC_YEAR # NaN
            /\ df_theft_clean[i].OCC_MONTH # NA
            /\ df_theft_clean[i].OCC_DAY # NaN
            /\ df_theft_clean[i].OCC_HOUR # NaN

\* What dropna(subset, how="all") leaves: no row that misses OCC_YEAR,
\* OCC_DAY and OCC_DOY all three.
C28_NotAllOfYearDayDoyMissing ==
    Cleaned =>
        \A i \in DOMAIN df_theft_clean :
            \/ df_theft_clean[i].OCC_YEAR # NaN
            \/ df_theft_clean[i].OCC_DAY # NaN
            \/ df_theft_clean[i].OCC_DOY # NaN

MaxFeatureRows == 2

Months ==
    <<"January", "February", "March", "April", "May", "June", "July",
      "August", "September", "October", "November", "December">>

Days == <<"Monday", "Tuesday", "Wednesday", "Thursday", "Friday", "Saturday", "Sunday">>

\* The columns of a row that the cell reads: every hour of the day, with a
\* month and a day of the week that go through all their values, and a row
\* whose hour and month are missing.
FeatureRows ==
    {[OCC_HOUR |-> Num(h), OCC_MONTH |-> Months[(h % 12) + 1], OCC_DOW |-> Days[(h % 7) + 1]] :
        h \in 0..23}
    \cup {[OCC_HOUR |-> NaN, OCC_MONTH |-> NA, OCC_DOW |-> Days[6]]}

InitFeatures ==
    /\ pc = "cell20"
    /\ df_theft_clean \in UNION {[1..n -> FeatureRows] : n \in 1..MaxFeatureRows}
    /\ fsas = <<>>
    /\ hoods = <<>>
    /\ intersect = <<>>
    /\ grouped = <<>>
    /\ statistic = None
    /\ estimate = <<>>
    /\ chunks = <<>>

hour_bins == <<-1, 5, 11, 17, 21, 23>>

hour_labels == <<"Night", "Morning", "Afternoon", "Evening", "Night">>

\* Fault: right=False, the bins closed on the left and open on the right.
cut_left_closed(x, bins, labels) ==
    IF x = NaN THEN NA
    ELSE LET hits == {k \in 1..(Len(bins) - 1) :
                         RatGE(x, Num(bins[k])) /\ RatLT(x, Num(bins[k + 1]))}
         IN  IF hits = {} THEN NA ELSE labels[CHOOSE k \in hits : TRUE]

\* pd.cut(x, bins, labels, ordered=False): the label of the bin
\* (bins[k], bins[k + 1]] that holds x; missing for a missing x and for an x
\* in no bin.
cut(x, bins, labels) ==
    IF x = NaN THEN NA
    ELSE LET hits == {k \in 1..(Len(bins) - 1) :
                         RatLT(Num(bins[k]), x) /\ RatGE(Num(bins[k + 1]), x)}
         IN  IF hits = {} THEN NA ELSE labels[CHOOSE k \in hits : TRUE]

TimeBin ==
    /\ pc = "cell20"
    /\ df_theft_clean' =
          [i \in 1..Len(df_theft_clean) |->
              df_theft_clean[i]
              @@ [OCC_TIME_BIN |-> cut(df_theft_clean[i].OCC_HOUR, hour_bins, hour_labels)]]
    /\ pc' = "season"
    /\ UNCHANGED <<fsas, hoods, intersect, grouped, statistic, estimate, chunks>>

season_map ==
    [m \in Range(Months) |->
        IF m \in {"December", "January", "February"} THEN "Winter"
        ELSE IF m \in {"March", "April", "May"} THEN "Spring"
        ELSE IF m \in {"June", "July", "August"} THEN "Summer"
        ELSE "Autumn"]

Season ==
    /\ pc = "season"
    /\ df_theft_clean' =
          [i \in 1..Len(df_theft_clean) |->
              df_theft_clean[i]
              @@ [SEASON |-> IF df_theft_clean[i].OCC_MONTH \in DOMAIN season_map
                             THEN season_map[df_theft_clean[i].OCC_MONTH] ELSE NA]]
    /\ pc' = "is_weekend"
    /\ UNCHANGED <<fsas, hoods, intersect, grouped, statistic, estimate, chunks>>

IsWeekend ==
    /\ pc = "is_weekend"
    /\ df_theft_clean' =
          [i \in 1..Len(df_theft_clean) |->
              df_theft_clean[i]
              @@ [IS_WEEKEND |-> df_theft_clean[i].OCC_DOW \in {"Saturday", "Sunday"}]]
    /\ pc' = "cell21"
    /\ UNCHANGED <<fsas, hoods, intersect, grouped, statistic, estimate, chunks>>

NextFeatures == TimeBin \/ Season \/ IsWeekend

SpecFeatures == InitFeatures /\ [][NextFeatures]_vars

\* C29: every row with an hour from 0 to 23 has one label in OCC_TIME_BIN:
\* Night for the hours 0 to 5 and 22 to 23, Morning for 6 to 11, Afternoon
\* for 12 to 17, Evening for 18 to 21; no such row is left without a label.
C29_EveryHourHasItsLabel ==
    pc \in {"season", "is_weekend", "cell21"} =>
        \A i \in DOMAIN df_theft_clean : \A h \in 0..23 :
            df_theft_clean[i].OCC_HOUR = Num(h) =>
                df_theft_clean[i].OCC_TIME_BIN =
                    (IF h \in (0..5) \cup (22..23) THEN "Night"
                     ELSE IF h \in 6..11 THEN "Morning"
                     ELSE IF h \in 12..17 THEN "Afternoon"
                     ELSE "Evening")

\* The two hours on either side of the last edge: 21 is Evening, 22 Night.
C29_Witness ==
    /\ pc = "cell21"
    /\ Len(df_theft_clean) = 2
    /\ df_theft_clean[1].OCC_HOUR = Num(21)
    /\ df_theft_clean[1].OCC_TIME_BIN = "Evening"
    /\ df_theft_clean[2].OCC_HOUR = Num(22)
    /\ df_theft_clean[2].OCC_TIME_BIN = "Night"

====
